---- MODULE Spec2Model ----
(***************************************************************************)
(* Model of the ordinal-aware transaction builder of OrdDeFi-Inscribe,     *)
(* src/src/subcommand/wallet/transaction_builder.rs.                       *)
(*                                                                         *)
(* One behaviour is one run of TransactionBuilder::new(...) followed by    *)
(* build_transaction(): the pipeline select_outgoing, align_outgoing,      *)
(* pad_alignment_output, add_value, strip_value, deduct_fee, build.  Every *)
(* stage is one action; `pc` names the stage that runs next.  A run ends   *)
(* in Ok(transaction), in Err(error) or in a panic (a failed assertion,    *)
(* unwrap or expect, or an arithmetic overflow).                           *)
(***************************************************************************)
EXTENDS Integers, Sequences, FiniteSets, TLC

(***************************************************************************)
(* Bounds of the model.                                                    *)
(***************************************************************************)
MaxOutpoints == 3
MaxFeeRate == 2

(***************************************************************************)
(* Program constants.                                                      *)
(***************************************************************************)
ADDITIONAL_INPUT_VBYTES == 58
ADDITIONAL_OUTPUT_VBYTES == 43
SCHNORR_SIGNATURE_SIZE == 64
MAX_POSTAGE == 2 * 10000
TARGET_POSTAGE == 10000

(***************************************************************************)
(* Inputs of TransactionBuilder::new.  Outpoints are numbered; their       *)
(* numeric order is the order of OutPoint in BTreeMap and BTreeSet.  The   *)
(* outgoing satpoint is always on outpoint 1, which may or may not be a    *)
(* key of the amount map.                                                  *)
(***************************************************************************)
OutPoints == 1 .. MaxOutpoints
Values == {0, 400, 10254, 100000}
Offsets == {0, 100, 500}
FeeRates == 1 .. MaxFeeRate
Addresses == {"bc1p_a", "bc1p_b", "bc1q_c"}
RecipientAddresses == {"bc1p_a", "bc1q_c"}
TargetAmounts == {100, 10000}
ExcludedSets ==
  {[locked |-> {}, runic |-> {}], [locked |-> {2}, runic |-> {}], [locked |-> {}, runic |-> {3}]}
InscribedSatPoints == {[outpoint |-> 1, offset |-> 0], [outpoint |-> 2, offset |-> 0]}

Targets ==
  {[kind |-> "Postage", amount |-> 0]}
    \cup {[kind |-> k, amount |-> a] : k \in {"Value", "ExactPostage"}, a \in TargetAmounts}

AmountMaps == UNION {[S -> Values] : S \in SUBSET OutPoints}

InscriptionMaps == UNION {[S -> {"i0"}] : S \in SUBSET InscribedSatPoints}

(***************************************************************************)
(* Scripts.  An address is named by its bech32 prefix: bc1p is a P2TR      *)
(* address (34-byte script), bc1q a P2WPKH address (22-byte script).  The  *)
(* marker script is OP_RETURN followed by the push of the 12 bytes of      *)
(* "orddefi:auth" (14 bytes).                                              *)
(***************************************************************************)
OP_RETURN_SCRIPT == "OP_RETURN orddefi:auth"

script_pubkey(address) == address

is_op_return(script) == script = OP_RETURN_SCRIPT

script_len(script) ==
  CASE script = OP_RETURN_SCRIPT -> 14
    [] script \in {"bc1p_a", "bc1p_b"} -> 34
    [] OTHER -> 22

\* Script::dust_value of rust-bitcoin: 3 sat/vB times the size of the output
\* plus the size of the input that spends it; every address of the model is a
\* witness program.
dust_value(script) ==
  3 * (IF is_op_return(script)
         THEN 0
         ELSE 32 + 4 + 1 + (107 \div 4) + 4 + 8 + (1 + script_len(script)))

\* FeeRate::fee for an integer fee rate.
fee(rate, vbytes) == rate * vbytes

\* Transaction::vsize of a version 2 transaction with `n` inputs that have an
\* empty script_sig and all carry a witness of `witness_len` serialized bytes
\* (0: no witness), and with outputs paying `scripts`.
RECURSIVE output_size(_)
output_size(scripts) ==
  IF scripts = <<>> THEN 0
  ELSE 8 + 1 + script_len(Head(scripts)) + output_size(Tail(scripts))

vsize(n, witness_len, scripts) ==
  LET non_input_size == 4 + 1 + 1 + output_size(scripts) + 4
      input_weight == n * (4 * (32 + 4 + 4 + 1) + witness_len)
      weight == IF n = 0 \/ witness_len = 0
                  THEN 4 * non_input_size + input_weight
                  ELSE 4 * non_input_size + input_weight + 2
  IN (weight + 3) \div 4

estimate_vbytes_with(n, addresses) ==
  vsize(n, 1 + 1 + SCHNORR_SIGNATURE_SIZE, addresses)

(***************************************************************************)
(* State: the fields of TransactionBuilder, the stage that runs next, and  *)
(* the result of build_transaction.                                        *)
(***************************************************************************)
VARIABLES
  amounts,                  \* BTreeMap<OutPoint, Amount>
  change_addresses,         \* Address
  fee_rate,                 \* FeeRate
  inputs,                   \* Vec<OutPoint>
  inscriptions,             \* BTreeMap<SatPoint, InscriptionId>
  locked_utxos,             \* BTreeSet<OutPoint>
  outgoing,                 \* SatPoint
  outputs,                  \* Vec<(Address, Amount)>
  recipient,                \* Address
  runic_utxos,              \* BTreeSet<OutPoint>
  target,                   \* Target
  unused_change_addresses,  \* Vec<Address>
  utxos,                    \* BTreeSet<OutPoint>
  pc,                       \* the stage of build_transaction that runs next
  result,                   \* "Running", "Ok", "Err" or "Panic"
  error,                    \* the Error of an Err result
  panic,                    \* the message of a panic
  transaction,              \* the Transaction of an Ok result
  entry,                    \* inputs, outputs, pool and queue when the last stage began
  call,                     \* the function called on its own, with its arguments
  returned                  \* what that call returned

params == <<amounts, change_addresses, fee_rate, inscriptions, locked_utxos, outgoing,
            recipient, runic_utxos, target>>

builder == <<inputs, outputs, unused_change_addresses, utxos>>

\* The variables of a call of one function on its own; no stage of
\* build_transaction touches them.
unit == <<call, returned>>

vars == <<params, builder, pc, result, error, panic, transaction, entry, unit>>

NoCall == [fn |-> "none"]

NoReturn == [status |-> "none"]

NoSatPoint == [outpoint |-> 0, offset |-> 0]

NoError ==
  [name |-> "None", output_value |-> 0, dust_value |-> 0, satpoint |-> NoSatPoint,
   maximum |-> 0, inscribed_satpoint |-> NoSatPoint, inscription_id |-> "", address |-> ""]

NoTransaction == [version |-> 0, input |-> <<>>, output |-> <<>>]

\* What `entry` records when `stage` begins.
Snapshot(stage) ==
  [stage |-> stage, inputs |-> inputs, outputs |-> outputs, utxos |-> utxos,
   unused_change_addresses |-> unused_change_addresses]

\* TransactionBuilder::new
Init ==
  /\ amounts \in AmountMaps
  /\ inscriptions \in InscriptionMaps
  /\ \E excluded \in ExcludedSets :
       /\ locked_utxos = excluded.locked
       /\ runic_utxos = excluded.runic
  /\ outgoing \in [outpoint : {1}, offset : Offsets]
  /\ recipient \in RecipientAddresses
  /\ change_addresses \in Addresses
  /\ fee_rate \in FeeRates
  /\ target \in Targets
  /\ utxos = DOMAIN amounts
  /\ inputs = <<>>
  /\ outputs = <<>>
  /\ unused_change_addresses = <<change_addresses>>
  /\ pc = "build_transaction"
  /\ result = "Running"
  /\ error = NoError
  /\ panic = ""
  /\ transaction = NoTransaction
  /\ entry = [stage |-> "new", inputs |-> <<>>, outputs |-> <<>>, utxos |-> DOMAIN amounts,
              unused_change_addresses |-> <<change_addresses>>]
  /\ call = NoCall
  /\ returned = NoReturn

(***************************************************************************)
(* How a stage ends.                                                       *)
(***************************************************************************)
Continue(next) ==
  /\ pc' = next
  /\ UNCHANGED <<result, error, panic, transaction>>

Fail(e) ==
  /\ pc' = "done"
  /\ result' = "Err"
  /\ error' = e
  /\ UNCHANGED <<panic, transaction>>

Abort(message) ==
  /\ pc' = "done"
  /\ result' = "Panic"
  /\ panic' = message
  /\ UNCHANGED <<error, transaction>>

(***************************************************************************)
(* Helpers on sequences and sets.                                          *)
(***************************************************************************)
Last(seq) == seq[Len(seq)]

Min(S) == CHOOSE x \in S : \A y \in S : x <= y

Max(S) == CHOOSE x \in S : \A y \in S : y <= x

\* The elements of a BTreeSet<OutPoint> in iteration order.
RECURSIVE iter(_)
iter(S) == IF S = {} THEN <<>> ELSE <<Min(S)>> \o iter(S \ {Min(S)})

RECURSIVE sum_amounts(_)
sum_amounts(outs) ==
  IF outs = <<>> THEN 0 ELSE Head(outs).amount + sum_amounts(Tail(outs))

RECURSIVE sum_inputs(_)
sum_inputs(ins) ==
  IF ins = <<>> THEN 0 ELSE amounts[Head(ins)] + sum_inputs(Tail(ins))

addresses_of(outs) == [i \in 1 .. Len(outs) |-> outs[i].address]

(***************************************************************************)
(* Estimates and the position of the outgoing sat.                         *)
(***************************************************************************)
estimate_vbytes(ins, outs) == estimate_vbytes_with(Len(ins), addresses_of(outs))

estimate_fee(ins, outs) == fee(fee_rate, estimate_vbytes(ins, outs))

\* The offset of the outgoing sat in the concatenation of the inputs; -1
\* stands for the panic "Could not find outgoing sat in inputs".
RECURSIVE calculate_sat_offset(_)
calculate_sat_offset(ins) ==
  IF ins = <<>> THEN -1
  ELSE IF Head(ins) = outgoing.outpoint THEN outgoing.offset
  ELSE LET rest == calculate_sat_offset(Tail(ins))
       IN IF rest < 0 THEN -1 ELSE amounts[Head(ins)] + rest

(***************************************************************************)
(* select_cardinal_utxo: the scan over the pool.  The result is            *)
(* [found, utxo, value]; the caller removes `utxo` from the pool.          *)
(***************************************************************************)
NoMatch == [found |-> FALSE, utxo |-> 0, value |-> 0]

\* is_cardinal without the test of the locked set.
is_cardinal_ignoring_locked(utxo) ==
  LET inscribed_utxos == {satpoint.outpoint : satpoint \in DOMAIN inscriptions}
  IN ~(utxo \in runic_utxos \/ utxo \in inscribed_utxos)

is_cardinal(utxo) ==
  LET inscribed_utxos == {satpoint.outpoint : satpoint \in DOMAIN inscriptions}
  IN ~(utxo \in runic_utxos \/ utxo \in inscribed_utxos \/ utxo \in locked_utxos)

abs_diff(a, b) == (IF a > b THEN a ELSE b) - (IF a < b THEN a ELSE b)

\* better_match without newly_meets_preference.
better_match_closer_only(current_value, best_value, target_value, prefer_under) ==
  LET is_closer == abs_diff(current_value, target_value) < abs_diff(best_value, target_value)
      not_preference_but_closer ==
        IF prefer_under THEN best_value > target_value /\ is_closer
                        ELSE best_value < target_value /\ is_closer
      is_preference_and_closer ==
        IF prefer_under THEN current_value <= target_value /\ is_closer
                        ELSE current_value >= target_value /\ is_closer
  IN is_preference_and_closer \/ not_preference_but_closer

\* better_match whose is_closer also holds at the same distance.
better_match_or_as_close(current_value, best_value, target_value, prefer_under) ==
  LET is_closer == abs_diff(current_value, target_value) <= abs_diff(best_value, target_value)
      not_preference_but_closer ==
        IF prefer_under THEN best_value > target_value /\ is_closer
                        ELSE best_value < target_value /\ is_closer
      is_preference_and_closer ==
        IF prefer_under THEN current_value <= target_value /\ is_closer
                        ELSE current_value >= target_value /\ is_closer
      newly_meets_preference ==
        IF prefer_under THEN best_value > target_value /\ current_value <= target_value
                        ELSE best_value < target_value /\ current_value >= target_value
  IN is_preference_and_closer \/ not_preference_but_closer \/ newly_meets_preference

better_match(current_value, best_value, target_value, prefer_under) ==
  LET is_closer == abs_diff(current_value, target_value) < abs_diff(best_value, target_value)
      not_preference_but_closer ==
        IF prefer_under THEN best_value > target_value /\ is_closer
                        ELSE best_value < target_value /\ is_closer
      is_preference_and_closer ==
        IF prefer_under THEN current_value <= target_value /\ is_closer
                        ELSE current_value >= target_value /\ is_closer
      newly_meets_preference ==
        IF prefer_under THEN best_value > target_value /\ current_value <= target_value
                        ELSE best_value < target_value /\ current_value >= target_value
  IN is_preference_and_closer \/ not_preference_but_closer \/ newly_meets_preference

RECURSIVE scan_utxos(_, _, _, _)
scan_utxos(candidates, best_match, target_value, prefer_under) ==
  IF candidates = <<>> THEN best_match
  ELSE LET utxo == Head(candidates)
           current_value == amounts[utxo]
           current == [found |-> TRUE, utxo |-> utxo, value |-> current_value]
           best_value == IF best_match.found THEN best_match.value ELSE current_value
           next_match ==
             IF ~is_cardinal(utxo) THEN best_match
             ELSE IF ~best_match.found
                     \/ better_match(current_value, best_value, target_value, prefer_under)
                    THEN current
                    ELSE best_match
       IN scan_utxos(Tail(candidates), next_match, target_value, prefer_under)

\* select_cardinal_utxo that scans every outpoint of the wallet, not the pool.
select_cardinal_utxo_from_wallet(pool, target_value, prefer_under) ==
  scan_utxos(iter(DOMAIN amounts), NoMatch, target_value, prefer_under)

select_cardinal_utxo(pool, target_value, prefer_under) ==
  scan_utxos(iter(pool), NoMatch, target_value, prefer_under)

(***************************************************************************)
(* build_transaction: the check of the target before the pipeline.         *)
(***************************************************************************)
\* target_below_dust that checks Target::Value only.
target_below_dust_value_only ==
  /\ target.kind = "Value"
  /\ target.amount < dust_value(script_pubkey(recipient))

target_below_dust ==
  /\ target.kind \in {"Value", "ExactPostage"}
  /\ target.amount < dust_value(script_pubkey(recipient))

build_transaction ==
  /\ pc = "build_transaction"
  /\ entry' = Snapshot("build_transaction")
  /\ UNCHANGED unit
  /\ UNCHANGED <<params, builder>>
  /\ IF target_below_dust
       THEN Fail([NoError EXCEPT !.name = "Dust",
                                 !.output_value = target.amount,
                                 !.dust_value = dust_value(script_pubkey(recipient))])
       ELSE Continue("select_outgoing")

(***************************************************************************)
(* select_outgoing                                                         *)
(***************************************************************************)
\* The inscribed satpoints that stop the send, for the dust limit of the
\* change script.
blocking_inscriptions(dust_limit) ==
  {inscribed_satpoint \in DOMAIN inscriptions :
     /\ outgoing.outpoint = inscribed_satpoint.outpoint
     /\ outgoing.offset # inscribed_satpoint.offset
     /\ outgoing.offset < inscribed_satpoint.offset + dust_limit}

\* The first of them in reverse map order: all are on the outgoing outpoint,
\* so it is the one of the greatest offset.
first_blocking(blocking) ==
  CHOOSE satpoint \in blocking : \A other \in blocking : other.offset <= satpoint.offset

\* select_outgoing_check with the wallet and range checks made before the
\* inscription check.
select_outgoing_check_wallet_first ==
  LET dust_limit == dust_value(script_pubkey(Last(unused_change_addresses)))
  IN IF outgoing.outpoint \notin DOMAIN amounts THEN "NotInWallet"
     ELSE IF outgoing.offset >= amounts[outgoing.outpoint] THEN "OutOfRange"
     ELSE IF blocking_inscriptions(dust_limit) # {} THEN "Inscription"
     ELSE "Ok"

\* The result of the checks of select_outgoing, in the order the code makes
\* them: "Inscription", "NotInWallet", "OutOfRange" or "Ok".
select_outgoing_check ==
  LET dust_limit == dust_value(script_pubkey(Last(unused_change_addresses)))
  IN IF blocking_inscriptions(dust_limit) # {} THEN "Inscription"
     ELSE IF outgoing.outpoint \notin DOMAIN amounts THEN "NotInWallet"
     ELSE IF outgoing.offset >= amounts[outgoing.outpoint] THEN "OutOfRange"
     ELSE "Ok"

\* `amount.to_sat() - 1` on u64.  With amount = 0 the subtraction overflows:
\* a build with overflow checks panics, a build without them wraps to
\* 2^64 - 1, written -1 here.
select_outgoing ==
  /\ pc = "select_outgoing"
  /\ entry' = Snapshot("select_outgoing")
  /\ UNCHANGED unit
  /\ UNCHANGED params
  /\ LET dust_limit == dust_value(script_pubkey(Last(unused_change_addresses)))
         blocking == blocking_inscriptions(dust_limit)
         check == select_outgoing_check
     IN CASE check = "Inscription" ->
               /\ Fail([NoError EXCEPT
                          !.name = "UtxoContainsAdditionalInscription",
                          !.satpoint = outgoing,
                          !.inscribed_satpoint = first_blocking(blocking),
                          !.inscription_id = inscriptions[first_blocking(blocking)]])
               /\ UNCHANGED builder
          [] check = "NotInWallet" ->
               /\ Fail([NoError EXCEPT !.name = "NotInWallet", !.satpoint = outgoing])
               /\ UNCHANGED builder
          [] check = "OutOfRange" ->
               /\ \E overflow_checks \in BOOLEAN :
                    IF amounts[outgoing.outpoint] = 0 /\ overflow_checks
                      THEN Abort("attempt to subtract with overflow")
                      ELSE Fail([NoError EXCEPT
                                   !.name = "OutOfRange",
                                   !.satpoint = outgoing,
                                   !.maximum = amounts[outgoing.outpoint] - 1])
               /\ UNCHANGED builder
          [] OTHER ->
               /\ utxos' = utxos \ {outgoing.outpoint}
               /\ inputs' = Append(inputs, outgoing.outpoint)
               /\ outputs' = Append(outputs, [address |-> recipient,
                                              amount |-> amounts[outgoing.outpoint]])
               /\ UNCHANGED unused_change_addresses
               /\ Continue("align_outgoing")

(***************************************************************************)
(* align_outgoing                                                          *)
(***************************************************************************)
\* aligned_outputs that leaves the recipient's output as it was.
aligned_outputs_not_lowered(outs, address, sat_offset) ==
  <<[address |-> address, amount |-> sat_offset]>> \o outs

\* aligned_outputs with the alignment output put after the recipient's.
aligned_outputs_appended(outs, address, sat_offset) ==
  Append([outs EXCEPT ![Len(outs)].amount = @ - sat_offset],
         [address |-> address, amount |-> sat_offset])

\* The outputs after the alignment output of `sat_offset` sats paying
\* `address` was inserted in front.
aligned_outputs(outs, address, sat_offset) ==
  LET inserted == <<[address |-> address, amount |-> sat_offset]>> \o outs
  IN [inserted EXCEPT ![Len(inserted)].amount = @ - sat_offset]

align_outgoing ==
  /\ pc = "align_outgoing"
  /\ entry' = Snapshot("align_outgoing")
  /\ UNCHANGED unit
  /\ UNCHANGED <<params, inputs, utxos>>
  /\ LET sat_offset == calculate_sat_offset(inputs)
     IN IF Len(outputs) # 1 THEN
          /\ Abort("invariant: only one output")
          /\ UNCHANGED <<outputs, unused_change_addresses>>
        ELSE IF outputs[1].address # recipient THEN
          /\ Abort("invariant: first output is recipient")
          /\ UNCHANGED <<outputs, unused_change_addresses>>
        ELSE IF sat_offset < 0 THEN
          /\ Abort("Could not find outgoing sat in inputs")
          /\ UNCHANGED <<outputs, unused_change_addresses>>
        ELSE IF sat_offset = 0 THEN
          /\ Continue("pad_alignment_output")
          /\ UNCHANGED <<outputs, unused_change_addresses>>
        ELSE IF unused_change_addresses = <<>> THEN
          /\ Abort("not enough change addresses")
          /\ UNCHANGED <<outputs, unused_change_addresses>>
        ELSE
          /\ outputs' = aligned_outputs(outputs, Last(unused_change_addresses), sat_offset)
          /\ unused_change_addresses' =
               SubSeq(unused_change_addresses, 1, Len(unused_change_addresses) - 1)
          /\ Continue("pad_alignment_output")

(***************************************************************************)
(* pad_alignment_output                                                    *)
(***************************************************************************)
RECURSIVE pad_loop(_, _, _, _)
pad_loop(ins, outs, pool, dust_limit) ==
  IF outs[1].amount < dust_limit
    THEN LET selected == select_cardinal_utxo(pool, dust_limit - outs[1].amount, TRUE)
         IN IF ~selected.found
              THEN [status |-> "NotEnoughCardinalUtxos", inputs |-> ins,
                    outputs |-> outs, utxos |-> pool]
              ELSE pad_loop(<<selected.utxo>> \o ins,
                            [outs EXCEPT ![1].amount = @ + selected.value],
                            pool \ {selected.utxo}, dust_limit)
    ELSE [status |-> "Ok", inputs |-> ins, outputs |-> outs, utxos |-> pool]

has_alignment_output(outs) == outs[1].address # recipient

pad_alignment_output ==
  /\ pc = "pad_alignment_output"
  /\ entry' = Snapshot("pad_alignment_output")
  /\ UNCHANGED unit
  /\ UNCHANGED <<params, unused_change_addresses>>
  /\ IF ~has_alignment_output(outputs) THEN
       /\ Continue("add_value")
       /\ UNCHANGED <<inputs, outputs, utxos>>
     ELSE IF unused_change_addresses = <<>> THEN
       /\ Abort("called Option::unwrap() on a None value")
       /\ UNCHANGED <<inputs, outputs, utxos>>
     ELSE
       LET dust_limit == dust_value(script_pubkey(Last(unused_change_addresses)))
           padded == pad_loop(inputs, outputs, utxos, dust_limit)
       IN /\ inputs' = padded.inputs
          /\ outputs' = padded.outputs
          /\ utxos' = padded.utxos
          /\ IF padded.status = "Ok"
               THEN Continue("add_value")
               ELSE Fail([NoError EXCEPT !.name = "NotEnoughCardinalUtxos"])

(***************************************************************************)
(* add_value.  The amounts of the model are far below 2^64, so the         *)
(* checked_add of lines 285-287 and 293-295 never returns ValueOverflow.   *)
(***************************************************************************)
min_value(outs) ==
  IF target.kind = "Postage"
    THEN dust_value(script_pubkey(Last(outs).address))
    ELSE target.amount

\* add_value_loop whose deficit arithmetic leaves out the fee of the added
\* input.
RECURSIVE add_value_loop_gross(_, _, _, _)
add_value_loop_gross(ins, outs, pool, deficit) ==
  IF deficit > 0
    THEN LET selected == select_cardinal_utxo(pool, deficit, FALSE)
             benefit == selected.value
         IN IF ~selected.found
              THEN [status |-> "NotEnoughCardinalUtxos", inputs |-> ins,
                    outputs |-> outs, utxos |-> pool]
            ELSE add_value_loop_gross(Append(ins, selected.utxo),
                                      [outs EXCEPT ![Len(outs)].amount = @ + selected.value],
                                      pool \ {selected.utxo},
                                      IF benefit > deficit THEN 0 ELSE deficit - benefit)
    ELSE [status |-> "Ok", inputs |-> ins, outputs |-> outs, utxos |-> pool]

RECURSIVE add_value_loop(_, _, _, _)
add_value_loop(ins, outs, pool, deficit) ==
  IF deficit > 0
    THEN LET additional_fee == fee(fee_rate, ADDITIONAL_INPUT_VBYTES)
             needed == deficit + additional_fee
             selected == select_cardinal_utxo(pool, needed, FALSE)
             benefit == selected.value - additional_fee
         IN IF ~selected.found
              THEN [status |-> "NotEnoughCardinalUtxos", inputs |-> ins,
                    outputs |-> outs, utxos |-> pool]
            ELSE IF benefit < 0
              THEN [status |-> "NotEnoughCardinalUtxos", inputs |-> ins,
                    outputs |-> outs, utxos |-> pool \ {selected.utxo}]
            ELSE add_value_loop(Append(ins, selected.utxo),
                                [outs EXCEPT ![Len(outs)].amount = @ + selected.value],
                                pool \ {selected.utxo},
                                IF benefit > deficit THEN 0 ELSE deficit - benefit)
    ELSE [status |-> "Ok", inputs |-> ins, outputs |-> outs, utxos |-> pool]

add_value ==
  /\ pc = "add_value"
  /\ entry' = Snapshot("add_value")
  /\ UNCHANGED unit
  /\ UNCHANGED <<params, unused_change_addresses>>
  /\ LET estimated_fee == estimate_fee(inputs, outputs)
         total == min_value(outputs) + estimated_fee
         deficit == total - Last(outputs).amount
         added == IF deficit >= 0
                    THEN add_value_loop(inputs, outputs, utxos, deficit)
                    ELSE [status |-> "Ok", inputs |-> inputs, outputs |-> outputs,
                          utxos |-> utxos]
     IN /\ inputs' = added.inputs
        /\ outputs' = added.outputs
        /\ utxos' = added.utxos
        /\ IF added.status = "Ok"
             THEN Continue("strip_value")
             ELSE Fail([NoError EXCEPT !.name = "NotEnoughCardinalUtxos"])

(***************************************************************************)
(* strip_value                                                             *)
(***************************************************************************)
strip_max ==
  CASE target.kind = "ExactPostage" -> target.amount
    [] target.kind = "Postage" -> MAX_POSTAGE
    [] OTHER -> target.amount

\* strip_target that cuts a Target::Postage output to MAX_POSTAGE.
strip_target_max_postage ==
  CASE target.kind = "ExactPostage" -> target.amount
    [] target.kind = "Postage" -> MAX_POSTAGE
    [] OTHER -> target.amount

strip_target ==
  CASE target.kind = "ExactPostage" -> target.amount
    [] target.kind = "Postage" -> TARGET_POSTAGE
    [] OTHER -> target.amount

\* stripped_outputs with the change output put in front of the outputs.
stripped_outputs_change_first(outs, address, value, postage) ==
  <<[address |-> address, amount |-> value - postage]>>
    \o [outs EXCEPT ![Len(outs)].amount = postage]

\* The outputs after the last output was cut to `postage` and the rest of
\* `value` went to a new last output paying `address`.
stripped_outputs(outs, address, value, postage) ==
  Append([outs EXCEPT ![Len(outs)].amount = postage],
         [address |-> address, amount |-> value - postage])

strip_value ==
  /\ pc = "strip_value"
  /\ entry' = Snapshot("strip_value")
  /\ UNCHANGED unit
  /\ UNCHANGED <<params, inputs, utxos>>
  /\ LET sat_offset == calculate_sat_offset(inputs)
         total_output_amount == sum_amounts(outputs)
         value == total_output_amount - sat_offset
         vbytes == estimate_vbytes(inputs, outputs)
         excess == value - fee(fee_rate, vbytes)
     IN IF sat_offset < 0 THEN
          /\ Abort("Could not find outgoing sat in inputs")
          /\ UNCHANGED <<outputs, unused_change_addresses>>
        ELSE IF \A i \in 1 .. Len(outputs) : outputs[i].address # recipient THEN
          /\ Abort("couldn't find output that contains the index")
          /\ UNCHANGED <<outputs, unused_change_addresses>>
        ELSE IF value < 0 THEN
          /\ Abort("Amount subtraction error")
          /\ UNCHANGED <<outputs, unused_change_addresses>>
        ELSE IF ~(excess >= 0 /\ excess > strip_max) THEN
          /\ Continue("deduct_fee")
          /\ UNCHANGED <<outputs, unused_change_addresses>>
        ELSE IF value < strip_target \/ unused_change_addresses = <<>> THEN
          /\ Abort("called Option::unwrap() on a None value")
          /\ UNCHANGED <<outputs, unused_change_addresses>>
        ELSE IF value - strip_target
                  > dust_value(script_pubkey(Last(unused_change_addresses)))
                      + fee(fee_rate, vbytes + ADDITIONAL_OUTPUT_VBYTES) THEN
          /\ outputs' = stripped_outputs(outputs, Last(unused_change_addresses),
                                         value, strip_target)
          /\ unused_change_addresses' =
               SubSeq(unused_change_addresses, 1, Len(unused_change_addresses) - 1)
          /\ Continue("deduct_fee")
        ELSE
          /\ Continue("deduct_fee")
          /\ UNCHANGED <<outputs, unused_change_addresses>>

(***************************************************************************)
(* deduct_fee                                                              *)
(***************************************************************************)
\* deducted_outputs that takes the fee from the first output.
deducted_outputs_from_first(outs, amount) == [outs EXCEPT ![1].amount = @ - amount]

deducted_outputs(outs, amount) == [outs EXCEPT ![Len(outs)].amount = @ - amount]

deduct_fee ==
  /\ pc = "deduct_fee"
  /\ entry' = Snapshot("deduct_fee")
  /\ UNCHANGED unit
  /\ UNCHANGED <<params, inputs, utxos, unused_change_addresses>>
  /\ LET sat_offset == calculate_sat_offset(inputs)
         estimated == estimate_fee(inputs, outputs)
         total_output_amount == sum_amounts(outputs)
     IN IF sat_offset < 0 THEN
          /\ Abort("Could not find outgoing sat in inputs")
          /\ UNCHANGED outputs
        ELSE IF outputs = <<>> THEN
          /\ Abort("No output to deduct fee from")
          /\ UNCHANGED outputs
        ELSE IF total_output_amount < estimated THEN
          /\ Abort("called Option::unwrap() on a None value")
          /\ UNCHANGED outputs
        ELSE IF ~(total_output_amount - estimated > sat_offset) THEN
          /\ Abort("invariant: deducting fee does not consume sat")
          /\ UNCHANGED outputs
        ELSE IF ~(Last(outputs).amount >= estimated) THEN
          /\ Abort("invariant: last output can pay fee")
          /\ UNCHANGED outputs
        ELSE
          /\ outputs' = deducted_outputs(outputs, estimated)
          /\ Continue("build")

(***************************************************************************)
(* build: the transaction and the assertions on it.                        *)
(***************************************************************************)
op_return_output == [value |-> 0, script_pubkey |-> OP_RETURN_SCRIPT]

\* build_transaction_from with the marker output put first.
build_transaction_from_marker_first(ins, outs) ==
  [version |-> 2,
   input |-> [i \in 1 .. Len(ins) |-> [previous_output |-> ins[i], witness |-> <<>>]],
   output |-> <<op_return_output>>
                \o [i \in 1 .. Len(outs) |->
                      [value |-> outs[i].amount,
                       script_pubkey |-> script_pubkey(outs[i].address)]]]

build_transaction_from(ins, outs) ==
  [version |-> 2,
   input |-> [i \in 1 .. Len(ins) |-> [previous_output |-> ins[i], witness |-> <<>>]],
   output |-> Append([i \in 1 .. Len(outs) |->
                        [value |-> outs[i].amount,
                         script_pubkey |-> script_pubkey(outs[i].address)]],
                     op_return_output)]

outgoing_in_utxos ==
  Cardinality({outpoint \in DOMAIN amounts :
                 outpoint = outgoing.outpoint /\ outgoing.offset < amounts[outpoint]}) = 1

inputs_spend_outgoing(tx) ==
  Cardinality({i \in 1 .. Len(tx.input) :
                 tx.input[i].previous_output = outgoing.outpoint}) = 1

\* Lines 506-517: the offset of the outgoing sat among the inputs of the
\* transaction, -1 when no input spends the outgoing outpoint.
RECURSIVE input_sat_offset(_)
input_sat_offset(tx_ins) ==
  IF tx_ins = <<>> THEN -1
  ELSE IF Head(tx_ins).previous_output = outgoing.outpoint THEN outgoing.offset
  ELSE LET rest == input_sat_offset(Tail(tx_ins))
       IN IF rest < 0 THEN -1 ELSE amounts[Head(tx_ins).previous_output] + rest

\* Lines 519-532: the index of the first output whose end is above
\* `sat_offset`, 0 when there is none.
RECURSIVE output_containing(_, _, _, _)
output_containing(tx_outs, i, output_end, sat_offset) ==
  IF i > Len(tx_outs) THEN 0
  ELSE IF output_end + tx_outs[i].value > sat_offset THEN i
  ELSE output_containing(tx_outs, i + 1, output_end + tx_outs[i].value, sat_offset)

\* excess_postage_stripped that looks at the first output paying the
\* recipient only.
excess_postage_stripped_first_only(tx) ==
  LET paying == {i \in 1 .. Len(tx.output) :
                   tx.output[i].script_pubkey = script_pubkey(recipient)}
      slop == fee(fee_rate, ADDITIONAL_OUTPUT_VBYTES)
  IN paying # {} =>
       CASE target.kind = "Postage" -> tx.output[Min(paying)].value <= MAX_POSTAGE + slop
         [] target.kind = "ExactPostage" ->
              tx.output[Min(paying)].value <= target.amount + slop
         [] OTHER -> TRUE

\* Lines 534-558.
excess_postage_stripped(tx) ==
  \A i \in 1 .. Len(tx.output) :
    tx.output[i].script_pubkey = script_pubkey(recipient) =>
      LET slop == fee(fee_rate, ADDITIONAL_OUTPUT_VBYTES)
      IN CASE target.kind = "Postage" -> tx.output[i].value <= MAX_POSTAGE + slop
           [] target.kind = "ExactPostage" -> tx.output[i].value <= target.amount + slop
           [] OTHER -> TRUE

RECURSIVE sum_values(_)
sum_values(tx_outs) ==
  IF tx_outs = <<>> THEN 0 ELSE Head(tx_outs).value + sum_values(Tail(tx_outs))

RECURSIVE sum_prevouts(_)
sum_prevouts(tx_ins) ==
  IF tx_ins = <<>> THEN 0
  ELSE amounts[Head(tx_ins).previous_output] + sum_prevouts(Tail(tx_ins))

\* Lines 560-566.
actual_fee(tx) == sum_prevouts(tx.input) - sum_values(tx.output)

\* Lines 568-572: the fee of the transaction with a 64-byte signature as the
\* witness of every input.
expected_fee(tx) ==
  fee(fee_rate,
      vsize(Len(tx.input), 1 + 1 + 64,
            [i \in 1 .. Len(tx.output) |-> tx.output[i].script_pubkey]))

\* Lines 579-584.
outputs_above_dust(tx) ==
  \A i \in 1 .. Len(tx.output) :
    tx.output[i].value >= dust_value(tx.output[i].script_pubkey)

\* The message of the first assertion of build that fails on `tx`, "" when
\* all hold.
build_panic(tx) ==
  LET sat_offset == input_sat_offset(tx.input)
      containing == output_containing(tx.output, 1, 0, sat_offset)
  IN CASE ~outgoing_in_utxos -> "invariant: outgoing sat is contained in utxos"
       [] ~inputs_spend_outgoing(tx) -> "invariant: inputs spend outgoing sat"
       [] sat_offset < 0 -> "invariant: outgoing sat is found in inputs"
       [] containing = 0 -> "invariant: outgoing sat is found in outputs"
       [] tx.output[containing].script_pubkey # script_pubkey(recipient) ->
            "invariant: outgoing sat is sent to recipient"
       [] ~excess_postage_stripped(tx) -> "invariant: excess postage is stripped"
       [] actual_fee(tx) < 0 -> "Amount subtraction error"
       [] ~outputs_above_dust(tx) -> "invariant: all outputs are above dust limit"
       [] OTHER -> ""

build ==
  /\ pc = "build"
  /\ entry' = Snapshot("build")
  /\ UNCHANGED unit
  /\ UNCHANGED <<params, builder>>
  /\ LET tx == build_transaction_from(inputs, outputs)
     IN IF build_panic(tx) # ""
          THEN Abort(build_panic(tx))
          ELSE /\ pc' = "done"
               /\ result' = "Ok"
               /\ transaction' = tx
               /\ UNCHANGED <<error, panic>>

Next ==
  \/ build_transaction
  \/ select_outgoing
  \/ align_outgoing
  \/ pad_alignment_output
  \/ add_value
  \/ strip_value
  \/ deduct_fee
  \/ build

Spec == Init /\ [][Next]_vars

(***************************************************************************)
(* select_cardinal_utxo called on its own.  A behaviour is one call on a   *)
(* builder whose pool is any subset of the keys of the amount map, with    *)
(* any target value and either preference.  The values and target values   *)
(* are chosen so that candidates lie below, at and above the target, at    *)
(* equal distances from it, and with equal values.                         *)
(***************************************************************************)
SelectValues == {100, 200, 300, 400}

SelectTargets == {50, 200, 300, 450}

SelectAmountMaps == UNION {[S -> SelectValues] : S \in SUBSET OutPoints}

SelectInit ==
  /\ amounts \in SelectAmountMaps
  /\ utxos \in SUBSET DOMAIN amounts
  /\ \E excluded \in ExcludedSets :
       /\ locked_utxos = excluded.locked
       /\ runic_utxos = excluded.runic
  /\ inscriptions \in InscriptionMaps
  /\ outgoing = [outpoint |-> 1, offset |-> 0]
  /\ recipient = "bc1p_a"
  /\ change_addresses = "bc1p_b"
  /\ fee_rate = 1
  /\ target = [kind |-> "Postage", amount |-> 0]
  /\ inputs = <<>>
  /\ outputs = <<>>
  /\ unused_change_addresses = <<change_addresses>>
  /\ pc = "select_cardinal_utxo"
  /\ result = "Running"
  /\ error = NoError
  /\ panic = ""
  /\ transaction = NoTransaction
  /\ entry = [stage |-> "new", inputs |-> <<>>, outputs |-> <<>>, utxos |-> utxos,
              unused_change_addresses |-> <<change_addresses>>]
  /\ call = NoCall
  /\ returned = NoReturn

\* The whole of select_cardinal_utxo: the scan, the removal of the match
\* from the pool and the return value.
call_select_cardinal_utxo ==
  /\ pc = "select_cardinal_utxo"
  /\ \E target_value \in SelectTargets, prefer_under \in BOOLEAN :
       LET best_match == select_cardinal_utxo(utxos, target_value, prefer_under)
       IN /\ call' = [fn |-> "select_cardinal_utxo", target_value |-> target_value,
                      prefer_under |-> prefer_under]
          /\ IF best_match.found
               THEN /\ utxos' = utxos \ {best_match.utxo}
                    /\ returned' = [status |-> "Ok", utxo |-> best_match.utxo,
                                    value |-> best_match.value,
                                    name |-> "None"]
               ELSE /\ utxos' = utxos
                    /\ returned' = [status |-> "Err", utxo |-> 0, value |-> 0,
                                    name |-> "NotEnoughCardinalUtxos"]
  /\ pc' = "returned"
  /\ entry' = Snapshot("select_cardinal_utxo")
  /\ UNCHANGED <<params, inputs, outputs, unused_change_addresses, result, error, panic,
                 transaction>>

SelectNext == call_select_cardinal_utxo

SelectSpec == SelectInit /\ [][SelectNext]_vars

(***************************************************************************)
(* The private key of the commit address deriver,                          *)
(* src/src/subcommand/wallet/commit_gen_addr.rs: bytes_from_hex_string and *)
(* key_pair_from_str called on their own.  Both look at a key string only  *)
(* through its length in bytes and through the class of each character, so *)
(* a string is the count of its hexadecimal digits, of its other one-byte  *)
(* characters and of its two-byte characters.  A string of 64 hexadecimal  *)
(* digits also has a scalar: zero, in the range of the curve order, or not *)
(* below the order.                                                        *)
(***************************************************************************)
MaxKeyDigits == 66
MaxOtherChars == 2
HEX_STRING_LEN == 64
KEY_BYTES_LEN == 32

KeyStrings ==
  [hex : 0 .. MaxKeyDigits, other : 0 .. MaxOtherChars, wide : 0 .. MaxOtherChars]

Scalars == {"zero", "in_range", "above_order"}

\* str::len: the length in bytes.
len(key) == key.hex + key.other + 2 * key.wide

\* hex::decode: an odd length is an error, then any character that is not a
\* hexadecimal digit is; the result has one byte for two digits.
hex_decode(key) ==
  IF len(key) % 2 # 0 THEN [ok |-> FALSE, bytes |-> 0, error |-> "OddLength"]
  ELSE IF key.other + key.wide > 0
    THEN [ok |-> FALSE, bytes |-> 0, error |-> "InvalidHexCharacter"]
  ELSE [ok |-> TRUE, bytes |-> len(key) \div 2, error |-> ""]

bytes_from_hex_string(hex_str) ==
  IF len(hex_str) # HEX_STRING_LEN
    THEN [ok |-> FALSE, bytes |-> 0,
          error |-> "Hex string must be exactly 64 characters long"]
  ELSE LET decoded == hex_decode(hex_str)
       IN IF decoded.ok
            THEN IF decoded.bytes # KEY_BYTES_LEN
                   THEN [ok |-> FALSE, bytes |-> 0, error |-> "Decoded bytes length is not 32"]
                   ELSE [ok |-> TRUE, bytes |-> decoded.bytes, error |-> ""]
            ELSE [ok |-> FALSE, bytes |-> 0, error |-> "Failed to decode hex string"]

\* key_pair_from_str that builds the secp256k1 context before it looks at
\* the key.
key_pair_from_str_context_first(key, scalar) ==
  LET key_bytes == bytes_from_hex_string(key)
  IN IF ~key_bytes.ok
       THEN [status |-> "Err", error |-> "cannot restore private key", bytes |-> 0,
             secp256k1 |-> TRUE, ec_operations |-> 0]
     ELSE IF scalar # "in_range"
       THEN [status |-> "Panic", error |-> "called Result::unwrap() on an Err value",
             bytes |-> key_bytes.bytes, secp256k1 |-> TRUE, ec_operations |-> 1]
     ELSE [status |-> "Ok", error |-> "", bytes |-> key_bytes.bytes,
           secp256k1 |-> TRUE, ec_operations |-> 1]

\* The result of key_pair_from_str, with whether the secp256k1 context was
\* built and how often KeyPair::from_seckey_slice was called.
key_pair_from_str(key, scalar) ==
  LET key_bytes == bytes_from_hex_string(key)
  IN IF ~key_bytes.ok
       THEN [status |-> "Err", error |-> "cannot restore private key", bytes |-> 0,
             secp256k1 |-> FALSE, ec_operations |-> 0]
     ELSE IF scalar # "in_range"
       THEN [status |-> "Panic", error |-> "called Result::unwrap() on an Err value",
             bytes |-> key_bytes.bytes, secp256k1 |-> TRUE, ec_operations |-> 1]
     ELSE [status |-> "Ok", error |-> "", bytes |-> key_bytes.bytes,
           secp256k1 |-> TRUE, ec_operations |-> 1]

KeyInit ==
  /\ \E fn \in {"bytes_from_hex_string", "key_pair_from_str"}, key \in KeyStrings,
        scalar \in Scalars :
       call = [fn |-> fn, key |-> key, scalar |-> scalar]
  /\ returned = NoReturn
  /\ pc = "call"
  /\ amounts = <<>>
  /\ utxos = {}
  /\ locked_utxos = {}
  /\ runic_utxos = {}
  /\ inscriptions = <<>>
  /\ outgoing = [outpoint |-> 1, offset |-> 0]
  /\ recipient = "bc1p_a"
  /\ change_addresses = "bc1p_b"
  /\ fee_rate = 1
  /\ target = [kind |-> "Postage", amount |-> 0]
  /\ inputs = <<>>
  /\ outputs = <<>>
  /\ unused_change_addresses = <<change_addresses>>
  /\ result = "Running"
  /\ error = NoError
  /\ panic = ""
  /\ transaction = NoTransaction
  /\ entry = [stage |-> "new", inputs |-> <<>>, outputs |-> <<>>, utxos |-> {},
              unused_change_addresses |-> <<change_addresses>>]

call_bytes_from_hex_string ==
  /\ pc = "call"
  /\ call.fn = "bytes_from_hex_string"
  /\ LET key_bytes == bytes_from_hex_string(call.key)
     IN returned' = [status |-> IF key_bytes.ok THEN "Ok" ELSE "Err",
                     error |-> key_bytes.error, bytes |-> key_bytes.bytes,
                     secp256k1 |-> FALSE, ec_operations |-> 0]
  /\ pc' = "returned"
  /\ UNCHANGED <<params, builder, result, error, panic, transaction, entry, call>>

call_key_pair_from_str ==
  /\ pc = "call"
  /\ call.fn = "key_pair_from_str"
  /\ returned' = key_pair_from_str(call.key, call.scalar)
  /\ pc' = "returned"
  /\ UNCHANGED <<params, builder, result, error, panic, transaction, entry, call>>

KeyNext ==
  \/ call_bytes_from_hex_string
  \/ call_key_pair_from_str

KeySpec == KeyInit /\ [][KeyNext]_vars

(***************************************************************************)
(* add_value run on its own, on the builder that select_outgoing,          *)
(* align_outgoing and pad_alignment_output hand on when the outgoing sat   *)
(* is the first sat of its UTXO: one input, the recipient's output with    *)
(* the whole amount, the other outpoints of the wallet in the pool.  The   *)
(* values are chosen around the fee of an added input at fee rate 1 (58):  *)
(* UTXOs worth nothing, worth that fee exactly, and worth little enough    *)
(* above it that two are needed to cover a deficit.                        *)
(***************************************************************************)
AddValues == {0, 58, 80, 90, 400}

AddAmountMaps == UNION {[S -> AddValues] : S \in SUBSET OutPoints}

AddValueInit ==
  /\ amounts \in AddAmountMaps
  /\ outgoing = [outpoint |-> 1, offset |-> 0]
  /\ outgoing.outpoint \in DOMAIN amounts
  /\ outgoing.offset < amounts[outgoing.outpoint]
  /\ recipient \in RecipientAddresses
  /\ change_addresses = "bc1p_b"
  /\ fee_rate \in FeeRates
  /\ target \in Targets
  /\ ~target_below_dust
  /\ \E excluded \in ExcludedSets :
       /\ locked_utxos = excluded.locked
       /\ runic_utxos = excluded.runic
  /\ inscriptions \in InscriptionMaps
  /\ inputs = <<outgoing.outpoint>>
  /\ outputs = <<[address |-> recipient, amount |-> amounts[outgoing.outpoint]]>>
  /\ utxos = DOMAIN amounts \ {outgoing.outpoint}
  /\ unused_change_addresses = <<change_addresses>>
  /\ pc = "add_value"
  /\ result = "Running"
  /\ error = NoError
  /\ panic = ""
  /\ transaction = NoTransaction
  /\ entry = [stage |-> "pad_alignment_output", inputs |-> inputs, outputs |-> outputs,
              utxos |-> utxos, unused_change_addresses |-> unused_change_addresses]
  /\ call = NoCall
  /\ returned = NoReturn

AddValueNext == add_value

AddValueSpec == AddValueInit /\ [][AddValueNext]_vars

(***************************************************************************)
(* add_value with its while loop taken one iteration at a time, followed   *)
(* by the rest of the pipeline.  `call` holds the deficit between two      *)
(* iterations.  The scheduler is the program counter of one thread, so     *)
(* weak fairness of the next-state relation says no more than that the     *)
(* thread keeps running.  (The while loop of pad_alignment_output has the  *)
(* same shape but runs in no run: the stage panics before it.)             *)
(***************************************************************************)
\* add_value_body in which a UTXO that brings no benefit is passed over and
\* stays in the pool.
add_value_body_passes_over(ins, outs, pool, deficit) ==
  LET additional_fee == fee(fee_rate, ADDITIONAL_INPUT_VBYTES)
      needed == deficit + additional_fee
      selected == select_cardinal_utxo(pool, needed, FALSE)
      benefit == selected.value - additional_fee
  IN IF ~selected.found
       THEN [status |-> "NotEnoughCardinalUtxos", inputs |-> ins, outputs |-> outs,
             utxos |-> pool, deficit |-> deficit]
     ELSE IF benefit < 0
       THEN [status |-> "NotEnoughCardinalUtxos", inputs |-> ins, outputs |-> outs,
             utxos |-> pool \ {selected.utxo}, deficit |-> deficit]
     ELSE IF benefit = 0
       THEN [status |-> "Ok", inputs |-> ins, outputs |-> outs, utxos |-> pool,
             deficit |-> deficit]
     ELSE [status |-> "Ok",
           inputs |-> Append(ins, selected.utxo),
           outputs |-> [outs EXCEPT ![Len(outs)].amount = @ + selected.value],
           utxos |-> pool \ {selected.utxo},
           deficit |-> IF benefit > deficit THEN 0 ELSE deficit - benefit]

\* One iteration of the while loop of add_value, lines 290-314.
add_value_body(ins, outs, pool, deficit) ==
  LET additional_fee == fee(fee_rate, ADDITIONAL_INPUT_VBYTES)
      needed == deficit + additional_fee
      selected == select_cardinal_utxo(pool, needed, FALSE)
      benefit == selected.value - additional_fee
  IN IF ~selected.found
       THEN [status |-> "NotEnoughCardinalUtxos", inputs |-> ins, outputs |-> outs,
             utxos |-> pool, deficit |-> deficit]
     ELSE IF benefit < 0
       THEN [status |-> "NotEnoughCardinalUtxos", inputs |-> ins, outputs |-> outs,
             utxos |-> pool \ {selected.utxo}, deficit |-> deficit]
     ELSE [status |-> "Ok",
           inputs |-> Append(ins, selected.utxo),
           outputs |-> [outs EXCEPT ![Len(outs)].amount = @ + selected.value],
           utxos |-> pool \ {selected.utxo},
           deficit |-> IF benefit > deficit THEN 0 ELSE deficit - benefit]

\* Lines 278-288: the deficit, if total.checked_sub(last output) is Some.
add_value_begin ==
  /\ pc = "add_value"
  /\ entry' = Snapshot("add_value")
  /\ UNCHANGED <<params, builder, returned>>
  /\ LET total == min_value(outputs) + estimate_fee(inputs, outputs)
         deficit == total - Last(outputs).amount
     IN IF deficit >= 0
          THEN /\ call' = [fn |-> "add_value", deficit |-> deficit]
               /\ Continue("add_value_loop")
          ELSE /\ call' = call
               /\ Continue("strip_value")

\* Lines 289-315: one pass through the loop while deficit > 0.
add_value_iteration ==
  /\ pc = "add_value_loop"
  /\ call.deficit > 0
  /\ UNCHANGED <<params, unused_change_addresses, entry, returned>>
  /\ \E body \in {add_value_body(inputs, outputs, utxos, call.deficit)} :
        /\ inputs' = body.inputs
        /\ outputs' = body.outputs
        /\ utxos' = body.utxos
        /\ call' = [call EXCEPT !.deficit = body.deficit]
        /\ IF body.status = "Ok"
             THEN Continue("add_value_loop")
             ELSE Fail([NoError EXCEPT !.name = "NotEnoughCardinalUtxos"])

\* Line 317: the loop condition fails and add_value returns Ok(self).
add_value_end ==
  /\ pc = "add_value_loop"
  /\ call.deficit = 0
  /\ UNCHANGED <<params, builder, entry, unit>>
  /\ Continue("strip_value")

LoopNext ==
  \/ add_value_begin
  \/ add_value_iteration
  \/ add_value_end
  \/ strip_value
  \/ deduct_fee
  \/ build

\* The builders of AddValueInit with an outgoing UTXO of 400 sat, a P2TR
\* recipient, fee rate 1, Target::Postage or Target::Value, and a wallet
\* without inscriptions, locked or rune-bearing outpoints: under
\* Target::Postage the deficit is 330 + 111 - 400 = 41 sat.
LoopInit ==
  /\ AddValueInit
  /\ amounts[outgoing.outpoint] = 400
  /\ recipient = "bc1p_a"
  /\ fee_rate = 1
  /\ target.kind \in {"Postage", "Value"}
  /\ inscriptions = <<>>
  /\ locked_utxos = {}
  /\ runic_utxos = {}

LoopSpec == LoopInit /\ [][LoopNext]_vars /\ WF_vars(LoopNext)

(***************************************************************************)
(* Vocabulary of the properties.                                           *)
(***************************************************************************)
TypedErrors ==
  {"DuplicateAddress", "Dust", "NotEnoughCardinalUtxos", "NotInWallet", "OutOfRange",
   "UtxoContainsAdditionalInscription", "ValueOverflow"}

Returned == pc = "done" /\ result = "Ok"

\* The stage that ran last and whether it came to its end.
Ran(stage) == entry.stage = stage

Completed(stage) == entry.stage = stage /\ result = "Running"

\* Inputs and outputs of the builder, and of a transaction, as sequences of
\* outpoints, of values and of scripts.
BuilderValues == [i \in 1 .. Len(outputs) |-> outputs[i].amount]

BuilderScripts == [i \in 1 .. Len(outputs) |-> script_pubkey(outputs[i].address)]

TxOutpoints == [i \in 1 .. Len(transaction.input) |-> transaction.input[i].previous_output]

TxValues == [i \in 1 .. Len(transaction.output) |-> transaction.output[i].value]

TxScripts == [i \in 1 .. Len(transaction.output) |-> transaction.output[i].script_pubkey]

RECURSIVE Sum(_)
Sum(values) == IF values = <<>> THEN 0 ELSE Head(values) + Sum(Tail(values))

AmountsOf(outpoints) == [i \in 1 .. Len(outpoints) |-> amounts[outpoints[i]]]

Positions(outpoints) == {i \in 1 .. Len(outpoints) : outpoints[i] = outgoing.outpoint}

\* The global offset of the outgoing sat: the amounts of the inputs before
\* the outgoing outpoint plus outgoing.offset.
GlobalOffset(outpoints) ==
  Sum(SubSeq(AmountsOf(outpoints), 1, Min(Positions(outpoints)) - 1)) + outgoing.offset

\* The outputs whose cumulative value range contains `offset`.
Holders(values, offset) ==
  {i \in 1 .. Len(values) :
     Sum(SubSeq(values, 1, i - 1)) <= offset /\ offset < Sum(SubSeq(values, 1, i))}

\* Invariants (1) and (2): the outgoing outpoint is spent once and the output
\* that holds the outgoing sat pays the recipient.
SatGoesToRecipient(outpoints, values, scripts) ==
  /\ Cardinality(Positions(outpoints)) = 1
  /\ Holders(values, GlobalOffset(outpoints)) # {}
  /\ \A i \in Holders(values, GlobalOffset(outpoints)) : scripts[i] = script_pubkey(recipient)

\* Invariant (3).
NoDust(values, scripts) ==
  \A i \in 1 .. Len(values) : values[i] >= dust_value(scripts[i])

\* The outgoing satpoint is valid: in the wallet, in range, not blocked.
OutgoingValid ==
  /\ outgoing.outpoint \in DOMAIN amounts
  /\ outgoing.offset < amounts[outgoing.outpoint]
  /\ \A satpoint \in DOMAIN inscriptions :
       ~(/\ satpoint.outpoint = outgoing.outpoint
         /\ satpoint.offset # outgoing.offset
         /\ outgoing.offset < satpoint.offset + dust_value(script_pubkey(change_addresses)))

\* The target asks for less than the dust threshold of the recipient.
DustTarget ==
  /\ target.kind \in {"Value", "ExactPostage"}
  /\ target.amount < dust_value(script_pubkey(recipient))

(***************************************************************************)
(* C1.  Every run of build_transaction ends in Ok with a transaction that  *)
(* satisfies invariants (1)-(4), or in a typed error; no run ends in a     *)
(* panic.  The code does not keep this: see the runs that end in a panic.  *)
(***************************************************************************)
C1_OkOrTypedError ==
  pc = "done" =>
    \/ /\ result = "Ok"
       /\ SatGoesToRecipient(TxOutpoints, TxValues, TxScripts)
       /\ NoDust(TxValues, TxScripts)
       /\ Sum(AmountsOf(TxOutpoints)) - Sum(TxValues) = estimate_fee(inputs, outputs)
    \/ /\ result = "Err"
       /\ error.name \in TypedErrors

(***************************************************************************)
(* C2.  In the builder handed to build and in every returned transaction,  *)
(* the outgoing outpoint occurs exactly once among the inputs and the      *)
(* output whose cumulative value range contains the global offset of the   *)
(* outgoing sat pays the recipient's script.                               *)
(***************************************************************************)
C2_SatGoesToRecipient ==
  /\ pc = "build" => SatGoesToRecipient(inputs, BuilderValues, BuilderScripts)
  /\ Returned => SatGoesToRecipient(TxOutpoints, TxValues, TxScripts)

\* A returned transaction with an added input and a change output that pays
\* another script than the recipient's.
C2_Witness ==
  /\ Returned
  /\ Len(transaction.input) >= 2
  /\ Len(transaction.output) >= 3
  /\ change_addresses # recipient

(***************************************************************************)
(* C3.  For a valid outgoing satpoint with a nonzero offset and a change   *)
(* address other than the recipient, align_outgoing makes the outputs      *)
(* <<change: sat_offset, recipient: amount - sat_offset>>, and             *)
(* pad_alignment_output then ends with the first output at or above the    *)
(* dust threshold of the change script or with NotEnoughCardinalUtxos.     *)
(* The code does not keep this: pad_alignment_output panics.               *)
(***************************************************************************)
C3_AlignThenPad ==
  (OutgoingValid /\ outgoing.offset # 0 /\ change_addresses # recipient /\ ~DustTarget) =>
    /\ Ran("align_outgoing") =>
         /\ result = "Running"
         /\ outputs = <<[address |-> change_addresses, amount |-> outgoing.offset],
                        [address |-> recipient,
                         amount |-> amounts[outgoing.outpoint] - outgoing.offset]>>
    /\ Ran("pad_alignment_output") =>
         \/ /\ result = "Running"
            /\ outputs[1].amount >= dust_value(script_pubkey(change_addresses))
         \/ /\ result = "Err"
            /\ error.name = "NotEnoughCardinalUtxos"

(***************************************************************************)
(* C4.  Under Target::Value(v) the output of a returned transaction that   *)
(* pays the recipient and holds the outgoing sat has the value v.  The     *)
(* code does not keep this: an excess too small to strip stays in the      *)
(* recipient output.                                                       *)
(***************************************************************************)
C4_ValueIsExact ==
  (Returned /\ target.kind = "Value") =>
    \A i \in Holders(TxValues, GlobalOffset(TxOutpoints)) : TxValues[i] = target.amount

(***************************************************************************)
(* C5.  Under Target::Postage no output of a returned transaction that     *)
(* pays the recipient's script is above MAX_POSTAGE plus                   *)
(* fee_rate.fee(ADDITIONAL_OUTPUT_VBYTES).                                 *)
(***************************************************************************)
C5_PostageCeiling ==
  (Returned /\ target.kind = "Postage") =>
    \A i \in 1 .. Len(TxValues) :
      TxScripts[i] = script_pubkey(recipient) =>
        TxValues[i] <= MAX_POSTAGE + fee(fee_rate, ADDITIONAL_OUTPUT_VBYTES)

\* A returned transaction under Target::Postage whose recipient output
\* floats above the default postage, and one that was stripped to it.
C5_Witness ==
  /\ Returned
  /\ target.kind = "Postage"
  /\ \E i \in 1 .. Len(TxValues) :
       TxScripts[i] = script_pubkey(recipient) /\ TxValues[i] > TARGET_POSTAGE

(***************************************************************************)
(* C6.  deduct_fee never panics, and when it has run the inputs exceed the *)
(* outputs by exactly fee_rate.fee(estimate_vbytes()) for the inputs and   *)
(* outputs as they stand, the outputs are those deduct_fee found with the  *)
(* last one lowered by that fee, and the last output is at or above the    *)
(* dust threshold of its script.                                           *)
(***************************************************************************)
C6_FeeFromLastOutput ==
  Ran("deduct_fee") =>
    /\ result = "Running"
    /\ inputs = entry.inputs
    /\ Sum(AmountsOf(inputs)) - Sum(BuilderValues) = estimate_fee(inputs, outputs)
    /\ Len(outputs) = Len(entry.outputs)
    /\ \A i \in 1 .. Len(outputs) :
         /\ outputs[i].address = entry.outputs[i].address
         /\ outputs[i].amount =
              IF i = Len(outputs)
                THEN entry.outputs[i].amount - estimate_fee(inputs, outputs)
                ELSE entry.outputs[i].amount
    /\ Last(outputs).amount >= dust_value(script_pubkey(Last(outputs).address))

\* deduct_fee has run on two inputs and a stripped change output.
C6_Witness ==
  /\ Completed("deduct_fee")
  /\ Len(inputs) >= 2
  /\ Len(outputs) >= 2
  /\ Last(outputs).address # recipient

(***************************************************************************)
(* C7.  In every run that reaches build every output is at or above the    *)
(* dust threshold of its own script, so the assertion `all outputs are     *)
(* above dust limit` holds and no returned transaction has an output below *)
(* dust.  The code does not keep this: an alignment output that pays the   *)
(* recipient's own address is never padded.                                *)
(***************************************************************************)
C7_NoDustOutput ==
  /\ pc = "build" => NoDust(BuilderValues, BuilderScripts)
  /\ Ran("build") => panic # "invariant: all outputs are above dust limit"
  /\ Returned => NoDust(TxValues, TxScripts)

(***************************************************************************)
(* C8.  With Target::Value(v) or Target::ExactPostage(v) and v below the   *)
(* dust threshold of the recipient's script, build_transaction returns     *)
(* Err(Dust {v, dust_value}) before select_outgoing: the pool is whole and *)
(* there is no input and no output.  Under Target::Postage no run returns  *)
(* Dust.                                                                   *)
(***************************************************************************)
C8_DustUpFront ==
  /\ (DustTarget /\ pc # "build_transaction") =>
       /\ pc = "done"
       /\ Ran("build_transaction")
       /\ result = "Err"
       /\ error = [NoError EXCEPT !.name = "Dust",
                                  !.output_value = target.amount,
                                  !.dust_value = dust_value(script_pubkey(recipient))]
       /\ utxos = DOMAIN amounts
       /\ inputs = <<>>
       /\ outputs = <<>>
  /\ target.kind = "Postage" => error.name # "Dust"

\* Dust was returned for ExactPostage and an outgoing satpoint that is not in
\* the wallet.
C8_Witness ==
  /\ result = "Err"
  /\ error.name = "Dust"
  /\ target.kind = "ExactPostage"
  /\ outgoing.outpoint \notin DOMAIN amounts

(***************************************************************************)
(* C9, as claimed.  When the outgoing outpoint is not a key of the amount  *)
(* map and the target passes the dust check, build_transaction returns     *)
(* Err(NotInWallet(outgoing)) whatever the inscription map holds.          *)
(***************************************************************************)
C9_NotInWalletFirst ==
  (pc = "done" /\ outgoing.outpoint \notin DOMAIN amounts /\ ~DustTarget) =>
    /\ result = "Err"
    /\ error = [NoError EXCEPT !.name = "NotInWallet", !.satpoint = outgoing]

\* An inscription of the map on the outgoing outpoint, at another offset,
\* within the dust limit of the change script.
Blocked ==
  \E satpoint \in DOMAIN inscriptions :
    /\ satpoint.outpoint = outgoing.outpoint
    /\ satpoint.offset # outgoing.offset
    /\ outgoing.offset < satpoint.offset + dust_value(script_pubkey(change_addresses))

(***************************************************************************)
(* C9, amended.  select_outgoing tests the additional-inscription          *)
(* condition first, then wallet membership, then the offset range: when    *)
(* the outgoing outpoint is not a key of the amount map and the target     *)
(* passes the dust check, build_transaction returns                        *)
(* Err(NotInWallet(outgoing)) if no inscription blocks the outgoing        *)
(* satpoint, whatever the locked set and the rune set contain, and         *)
(* Err(UtxoContainsAdditionalInscription) if one does.                     *)
(***************************************************************************)
C9_NotInWalletUnlessBlocked ==
  (pc = "done" /\ outgoing.outpoint \notin DOMAIN amounts /\ ~DustTarget) =>
    /\ result = "Err"
    /\ Ran("select_outgoing")
    /\ utxos = DOMAIN amounts /\ inputs = <<>> /\ outputs = <<>>
    /\ IF Blocked
         THEN /\ error.name = "UtxoContainsAdditionalInscription"
              /\ error.satpoint = outgoing
         ELSE error = [NoError EXCEPT !.name = "NotInWallet", !.satpoint = outgoing]

\* NotInWallet was returned with an inscription on the outgoing outpoint in
\* the map and a locked outpoint.
C9_Witness ==
  /\ result = "Err"
  /\ error.name = "NotInWallet"
  /\ \E satpoint \in DOMAIN inscriptions : satpoint.outpoint = outgoing.outpoint
  /\ locked_utxos # {}

(***************************************************************************)
(* C10.  In every state of the builder and in every returned transaction,  *)
(* each input other than the outgoing outpoint is a key of the amount map  *)
(* that is not locked, not rune-bearing and not the outpoint of an         *)
(* inscription of the map.                                                 *)
(***************************************************************************)
Excluded ==
  locked_utxos \cup runic_utxos \cup {satpoint.outpoint : satpoint \in DOMAIN inscriptions}

C10_InputsAreCardinal ==
  /\ \A i \in 1 .. Len(inputs) :
       inputs[i] # outgoing.outpoint =>
         inputs[i] \in DOMAIN amounts /\ inputs[i] \notin Excluded
  /\ \A i \in 1 .. Len(TxOutpoints) :
       TxOutpoints[i] # outgoing.outpoint =>
         TxOutpoints[i] \in DOMAIN amounts /\ TxOutpoints[i] \notin Excluded

\* A returned transaction with an added input, while an excluded outpoint of
\* the wallet was passed over and is still in the pool.
C10_Witness ==
  /\ Returned
  /\ Len(transaction.input) >= 2
  /\ \E utxo \in utxos : utxo \in Excluded /\ utxo # outgoing.outpoint

(***************************************************************************)
(* C11.  No returned transaction has two value-bearing outputs that pay    *)
(* the same script, and a run whose recipient address is also the change   *)
(* address and whose outgoing sat needs an alignment output ends in        *)
(* Err(DuplicateAddress(address)).  The code does not keep this: no stage  *)
(* constructs DuplicateAddress.                                            *)
(***************************************************************************)
C11_DuplicateAddressRejected ==
  /\ Returned =>
       \A i, j \in 1 .. Len(TxValues) :
         (i # j /\ TxValues[i] > 0 /\ TxValues[j] > 0) => TxScripts[i] # TxScripts[j]
  /\ (pc = "done" /\ recipient = change_addresses /\ OutgoingValid /\ ~DustTarget
        /\ outgoing.offset # 0) =>
       /\ result = "Err"
       /\ error = [NoError EXCEPT !.name = "DuplicateAddress", !.address = recipient]

\* The outpoints of a pool that select_cardinal_utxo may return.
Candidates(pool) == {utxo \in pool : utxo \in DOMAIN amounts /\ utxo \notin Excluded}

\* select_cardinal_utxo has returned from a call on its own.
Called == pc = "returned" /\ call.fn = "select_cardinal_utxo"

(***************************************************************************)
(* C12.  When the candidates of the pool are two cardinal outpoints whose  *)
(* values are equally far from target_value, one below and one above,      *)
(* select_cardinal_utxo returns the one below when prefer_under is true    *)
(* and the one above when prefer_under is false, whichever of the two      *)
(* comes first in outpoint order.                                          *)
(***************************************************************************)
C12_TieGoesToPreference ==
  Called =>
    \A below, above \in Candidates(entry.utxos) :
      (/\ Candidates(entry.utxos) = {below, above}
       /\ amounts[below] < call.target_value
       /\ amounts[above] > call.target_value
       /\ call.target_value - amounts[below] = amounts[above] - call.target_value) =>
        /\ returned.status = "Ok"
        /\ returned.utxo = IF call.prefer_under THEN below ELSE above

\* Two candidates at the same distance of the target, and the one returned
\* comes after the other in outpoint order.
C12_Witness ==
  /\ Called
  /\ \E below, above \in Candidates(entry.utxos) :
       /\ Candidates(entry.utxos) = {below, above}
       /\ amounts[below] < call.target_value
       /\ amounts[above] > call.target_value
       /\ call.target_value - amounts[below] = amounts[above] - call.target_value
       /\ call.prefer_under
       /\ above < below
       /\ returned.utxo = below

\* The outgoing sat is the first sat of a wallet UTXO whose value, less the
\* fee of the one-input one-output transaction, is above MAX_POSTAGE, and
\* the change address is not the recipient's.
LargeAlignedOutgoing ==
  /\ target.kind = "Postage"
  /\ change_addresses # recipient
  /\ OutgoingValid
  /\ outgoing.offset = 0
  /\ amounts[outgoing.outpoint] - fee(fee_rate, estimate_vbytes_with(1, <<recipient>>))
       > MAX_POSTAGE

(***************************************************************************)
(* C13.  Under Target::Postage with a change address other than the        *)
(* recipient and the outgoing sat at offset 0 of a UTXO whose value V less *)
(* the fee is above MAX_POSTAGE, build_transaction returns a transaction   *)
(* whose only input is the outgoing outpoint and whose outputs are the     *)
(* recipient's with TARGET_POSTAGE, the change with V - TARGET_POSTAGE -    *)
(* fee of the one-input two-output transaction, and the marker; no         *)
(* cardinal UTXO leaves the pool.                                          *)
(***************************************************************************)
C13_LargeUtxoIsSplit ==
  (pc = "done" /\ LargeAlignedOutgoing) =>
    /\ result = "Ok"
    /\ TxOutpoints = <<outgoing.outpoint>>
    /\ transaction.output =
         <<[value |-> TARGET_POSTAGE, script_pubkey |-> script_pubkey(recipient)],
           [value |-> amounts[outgoing.outpoint] - TARGET_POSTAGE
                        - fee(fee_rate, estimate_vbytes_with(1, <<recipient, change_addresses>>)),
            script_pubkey |-> script_pubkey(change_addresses)],
           [value |-> 0, script_pubkey |-> OP_RETURN_SCRIPT]>>
    /\ utxos = DOMAIN amounts \ {outgoing.outpoint}

\* Such a run has returned while a cardinal UTXO was in the pool.
C13_Witness ==
  /\ Returned
  /\ LargeAlignedOutgoing
  /\ \E utxo \in utxos : utxo \notin Excluded /\ amounts[utxo] > 0

\* The sum of the outputs before output i of the builder.
ValueBefore(i) == Sum([j \in 1 .. i - 1 |-> outputs[j].amount])

\* A stage from align_outgoing to deduct_fee has ended and handed the
\* builder on.
AlignedStages ==
  {"align_outgoing", "pad_alignment_output", "add_value", "strip_value", "deduct_fee"}

(***************************************************************************)
(* C14.  When align_outgoing has ended, and at the end of each of          *)
(* pad_alignment_output, add_value, strip_value and deduct_fee, an output  *)
(* that pays the recipient starts at calculate_sat_offset() of the current *)
(* inputs - the sum of the values of the outputs before it equals that     *)
(* offset - and is not empty: the outgoing sat is its first sat.           *)
(***************************************************************************)
C14_SatIsFirstOfRecipientOutput ==
  (\E stage \in AlignedStages : Completed(stage)) =>
    \E i \in 1 .. Len(outputs) :
      /\ outputs[i].address = recipient
      /\ ValueBefore(i) = calculate_sat_offset(inputs)
      /\ ValueBefore(i) = GlobalOffset(inputs)
      /\ outputs[i].amount > 0

\* deduct_fee has ended on outputs with an alignment output in front of the
\* recipient's.
C14_Witness ==
  /\ Completed("deduct_fee")
  /\ Len(outputs) = 2
  /\ calculate_sat_offset(inputs) > 0
  /\ outputs[1].amount = calculate_sat_offset(inputs)

(***************************************************************************)
(* C15.  Every returned transaction has exactly one OP_RETURN output: the  *)
(* last one, of value 0, carrying the bytes orddefi:auth.  The outputs     *)
(* before it are the outputs of the builder, in order, with their values,  *)
(* and the inputs are the inputs of the builder, in order, each with an    *)
(* empty witness.                                                          *)
(***************************************************************************)
C15_MarkerOutputIsLast ==
  Returned =>
    LET n == Len(transaction.output)
    IN /\ n = Len(outputs) + 1
       /\ transaction.output[n] = [value |-> 0, script_pubkey |-> "OP_RETURN orddefi:auth"]
       /\ {i \in 1 .. n : is_op_return(transaction.output[i].script_pubkey)} = {n}
       /\ \A i \in 1 .. n - 1 :
            /\ transaction.output[i].value = outputs[i].amount
            /\ transaction.output[i].script_pubkey = script_pubkey(outputs[i].address)
            /\ outputs[i] = entry.outputs[i]
       /\ Len(transaction.input) = Len(inputs)
       /\ \A i \in 1 .. Len(inputs) :
            transaction.input[i] = [previous_output |-> inputs[i], witness |-> <<>>]

\* A returned transaction with two inputs, two outputs of the builder and
\* the marker.
C15_Witness ==
  /\ Returned
  /\ Len(transaction.input) = 2
  /\ Len(transaction.output) = 3
  /\ transaction.output[1].value # transaction.output[2].value

\* A stage that began with an empty queue of change addresses asked the
\* queue for its last address: pad_alignment_output for the script of the
\* alignment output, strip_value for the script of the change output.
QueueReadAfterEmptied ==
  /\ entry.stage \in {"pad_alignment_output", "strip_value"}
  /\ entry.unused_change_addresses = <<>>
  /\ result = "Panic"
  /\ panic = "called Option::unwrap() on a None value"

(***************************************************************************)
(* C16.  A change address leaves unused_change_addresses at most once in a *)
(* run and is not used again: each output beyond the recipient's took one  *)
(* address off the queue, so no run has both an alignment output and a     *)
(* stripped change output on the one change address, and no stage reads a  *)
(* change address from the queue after the queue was emptied.  The code    *)
(* does not keep this: pad_alignment_output and strip_value read the queue *)
(* that align_outgoing emptied.                                            *)
(***************************************************************************)
C16_ChangeAddressTakenOnce ==
  /\ Len(outputs) + Len(unused_change_addresses) <= 2
  /\ Len(outputs) <= 2
  /\ ~QueueReadAfterEmptied

\* The key string is 64 hexadecimal digits and nothing else.
Is64HexDigits(key) == key.hex = 64 /\ key.other = 0 /\ key.wide = 0

(***************************************************************************)
(* C17.  For every key string that is not exactly 64 hexadecimal           *)
(* characters key_pair_from_str returns an error, has built no secp256k1   *)
(* context and has done no elliptic-curve operation; bytes_from_hex_string *)
(* returns Ok with exactly 32 bytes for a string of 64 hexadecimal         *)
(* characters and Err for every other string.                              *)
(***************************************************************************)
C17_MalformedKeyRejectedFirst ==
  pc = "returned" =>
    /\ (call.fn = "key_pair_from_str" /\ ~Is64HexDigits(call.key)) =>
         /\ returned.status = "Err"
         /\ ~returned.secp256k1
         /\ returned.ec_operations = 0
    /\ call.fn = "bytes_from_hex_string" =>
         IF Is64HexDigits(call.key)
           THEN returned.status = "Ok" /\ returned.bytes = 32
           ELSE returned.status = "Err"

\* key_pair_from_str has returned for a key of 64 bytes that are not all
\* hexadecimal digits: the length test passes and the decoding fails.
C17_Witness ==
  /\ pc = "returned"
  /\ call.fn = "key_pair_from_str"
  /\ len(call.key) = 64
  /\ call.key.wide = 1
  /\ returned.status = "Err"

\* The values of the candidates of a pool.
CandidateValues(pool) == {amounts[utxo] : utxo \in Candidates(pool)}

\* The greatest and the smallest element of a nonempty set of values.
Greatest(values) == CHOOSE v \in values : \A w \in values : w <= v

Smallest(values) == CHOOSE v \in values : \A w \in values : v <= w

\* The value select_cardinal_utxo is to return for a pool with a candidate.
PreferredValue(pool, target_value, prefer_under) ==
  LET values == CandidateValues(pool)
      under == {v \in values : v <= target_value}
      strictly_under == {v \in values : v < target_value}
      over == {v \in values : v >= target_value}
      strictly_over == {v \in values : v > target_value}
  IN IF prefer_under
       THEN IF under # {} THEN Greatest(under) ELSE Smallest(strictly_over)
       ELSE IF over # {} THEN Smallest(over) ELSE Greatest(strictly_under)

(***************************************************************************)
(* C19.  select_cardinal_utxo considers exactly the outpoints of the pool  *)
(* that are not locked, not rune-bearing and not the outpoint of an        *)
(* inscription.  With prefer_under = true it returns a candidate of the    *)
(* greatest value at or below the target if there is one, otherwise one of *)
(* the smallest value above it; with prefer_under = false one of the       *)
(* smallest value at or above the target if there is one, otherwise one of *)
(* the greatest value below it; among candidates of that value the first   *)
(* in outpoint order.  It removes exactly the returned outpoint from the   *)
(* pool, and returns NotEnoughCardinalUtxos with the pool unchanged        *)
(* exactly when there is no candidate.                                     *)
(***************************************************************************)
C19_SelectionRule ==
  Called =>
    LET pool == entry.utxos
        value == PreferredValue(pool, call.target_value, call.prefer_under)
    IN IF Candidates(pool) = {}
         THEN /\ returned.status = "Err"
              /\ returned.name = "NotEnoughCardinalUtxos"
              /\ utxos = pool
         ELSE /\ returned.status = "Ok"
              /\ returned.utxo \in Candidates(pool)
              /\ returned.value = value
              /\ amounts[returned.utxo] = value
              /\ \A utxo \in Candidates(pool) :
                   amounts[utxo] = value => returned.utxo <= utxo
              /\ utxos = pool \ {returned.utxo}

\* A call on a pool with an excluded outpoint that holds the target value
\* exactly, and two candidates of the value returned.
C19_Witness ==
  /\ Called
  /\ returned.status = "Ok"
  /\ \E utxo \in entry.utxos \ Candidates(entry.utxos) : amounts[utxo] = call.target_value
  /\ returned.value # call.target_value
  /\ \E utxo \in Candidates(entry.utxos) :
       utxo # returned.utxo /\ amounts[utxo] = returned.value

\* The position, in the inputs of the returned transaction, of the sat at
\* `offset` of the outgoing outpoint.
GlobalOffsetOf(offset) ==
  Sum(SubSeq(AmountsOf(TxOutpoints), 1, Min(Positions(TxOutpoints)) - 1)) + offset

\* The inscriptions of the map on the outgoing outpoint, other than one on
\* the outgoing sat, that lie in the UTXO.
OtherInscriptions ==
  {satpoint \in DOMAIN inscriptions :
     /\ satpoint.outpoint = outgoing.outpoint
     /\ satpoint.offset # outgoing.offset
     /\ satpoint.offset < amounts[outgoing.outpoint]}

(***************************************************************************)
(* C20.  select_outgoing returns UtxoContainsAdditionalInscription exactly *)
(* when the inscription map holds a satpoint on the outgoing outpoint at   *)
(* an offset i other than outgoing.offset with outgoing.offset < i + the   *)
(* dust threshold of the change script; an inscription at the outgoing     *)
(* offset never blocks; and in every run that passes the check and returns *)
(* a transaction each other inscription of the outgoing outpoint is in an  *)
(* output that does not pay the recipient.  The code does not keep the     *)
(* last part: the alignment output that holds the other inscription pays   *)
(* the recipient's script when the change address is the recipient's.      *)
(***************************************************************************)
C20_OtherInscriptionsStayBehind ==
  /\ Ran("select_outgoing") =>
       (error.name = "UtxoContainsAdditionalInscription" <=> Blocked)
  /\ error.name = "UtxoContainsAdditionalInscription" =>
       /\ Ran("select_outgoing")
       /\ result = "Err"
       /\ error.satpoint = outgoing
       /\ error.inscribed_satpoint \in DOMAIN inscriptions
       /\ error.inscribed_satpoint.offset # outgoing.offset
  /\ Returned =>
       \A satpoint \in OtherInscriptions :
         \A i \in Holders(TxValues, GlobalOffsetOf(satpoint.offset)) :
           TxScripts[i] # script_pubkey(recipient)

(***************************************************************************)
(* C21.  When the outgoing outpoint is a key of the amount map with amount *)
(* a, no inscription blocks the outgoing satpoint and outgoing.offset >= a, *)
(* build_transaction returns Err(OutOfRange(outgoing, a - 1)) and leaves   *)
(* the pool, the inputs and the outputs as new() made them, for every a,   *)
(* a = 0 included.  The code does not keep this for a = 0: a - 1 is        *)
(* computed in u64.                                                        *)
(***************************************************************************)
C21_OutOfRangeForEveryAmount ==
  (/\ pc = "done"
   /\ outgoing.outpoint \in DOMAIN amounts
   /\ ~Blocked
   /\ ~DustTarget
   /\ outgoing.offset >= amounts[outgoing.outpoint]) =>
    /\ result = "Err"
    /\ error = [NoError EXCEPT !.name = "OutOfRange",
                               !.satpoint = outgoing,
                               !.maximum = amounts[outgoing.outpoint] - 1]
    /\ utxos = DOMAIN amounts
    /\ inputs = <<>>
    /\ outputs = <<>>

\* What the cardinal UTXOs of a pool can add to the last output, each less
\* the fee of its own input.
RECURSIVE NetValue(_)
NetValue(candidates) ==
  IF candidates = {} THEN 0
  ELSE LET utxo == CHOOSE u \in candidates : TRUE
           net == amounts[utxo] - fee(fee_rate, 58)
       IN (IF net > 0 THEN net ELSE 0) + NetValue(candidates \ {utxo})

\* The deficit add_value began with.
InitialDeficit ==
  min_value(entry.outputs) + estimate_fee(entry.inputs, entry.outputs)
    - Last(entry.outputs).amount

(***************************************************************************)
(* C22.  add_value returns Ok whenever the cardinal UTXOs of the pool,     *)
(* each less fee_rate.fee(58), sum to at least the initial deficit         *)
(* min_value + estimate_fee() - value of the last output, and returns      *)
(* NotEnoughCardinalUtxos only when they do not.  On Ok the last output is *)
(* at least min_value plus estimate_fee() for the inputs as extended.      *)
(***************************************************************************)
C22_AddValueCoversDeficit ==
  Ran("add_value") =>
    /\ NetValue(Candidates(entry.utxos)) >= InitialDeficit => result = "Running"
    /\ (result = "Err" /\ error.name = "NotEnoughCardinalUtxos") =>
         NetValue(Candidates(entry.utxos)) < InitialDeficit
    /\ result = "Running" =>
         Last(outputs).amount >= min_value(outputs) + estimate_fee(inputs, outputs)

\* add_value has returned Ok after it added two inputs, neither of which
\* covered the deficit alone.
C22_Witness ==
  /\ Completed("add_value")
  /\ Len(inputs) = Len(entry.inputs) + 2
  /\ InitialDeficit > 0
  /\ \A utxo \in Candidates(entry.utxos) :
       amounts[utxo] - fee(fee_rate, 58) < InitialDeficit

(***************************************************************************)
(* C23.  Under Target::ExactPostage(p), in every run that reaches build    *)
(* the recipient's output holds at most p + fee_rate.fee(43), and the      *)
(* assertion `excess postage is stripped` of build holds.  The code does   *)
(* not keep this: strip_value leaves an excess in the recipient's output   *)
(* when the change output it would make is at or below the dust threshold  *)
(* plus its fee.                                                           *)
(***************************************************************************)
C23_ExactPostageCeiling ==
  target.kind = "ExactPostage" =>
    /\ pc = "build" =>
         \A i \in 1 .. Len(outputs) :
           (outputs[i].address = recipient
              /\ i \in Holders(BuilderValues, GlobalOffset(inputs))) =>
             outputs[i].amount <= target.amount + fee(fee_rate, ADDITIONAL_OUTPUT_VBYTES)
    /\ Ran("build") => panic # "invariant: excess postage is stripped"

(***************************************************************************)
(* C24.  The fee a returned transaction pays - the amounts of its inputs   *)
(* less the values of all its outputs - equals fee_rate.fee(vsize) of that *)
(* transaction, marker output included, each witness being one 64-byte     *)
(* signature: actual_fee = expected_fee as build computes them.  The code  *)
(* does not keep this: deduct_fee prices the transaction without the       *)
(* marker output.                                                          *)
(***************************************************************************)
C24_FeeOfReturnedTransaction ==
  Returned =>
    /\ actual_fee(transaction) = expected_fee(transaction)
    /\ Sum(AmountsOf(TxOutpoints)) - Sum(TxValues)
         = fee(fee_rate, vsize(Len(TxOutpoints), 1 + 1 + SCHNORR_SIGNATURE_SIZE, TxScripts))

\* The stages that move value between inputs and outputs without paying
\* any of it as fee.
ValueKeepingStages ==
  {"select_outgoing", "align_outgoing", "pad_alignment_output", "add_value", "strip_value"}

(***************************************************************************)
(* C25.  At the end of each of select_outgoing, align_outgoing,            *)
(* pad_alignment_output, add_value and strip_value the output values sum   *)
(* to the amounts of the inputs: no stage creates or loses value.          *)
(* deduct_fee lowers the last output by exactly estimate_fee() and changes *)
(* no input and no other output.                                           *)
(***************************************************************************)
C25_StagesKeepValue ==
  /\ (\E stage \in ValueKeepingStages : Completed(stage)) =>
       Sum(BuilderValues) = Sum(AmountsOf(inputs))
  /\ Completed("deduct_fee") =>
       /\ inputs = entry.inputs
       /\ utxos = entry.utxos
       /\ Len(outputs) = Len(entry.outputs)
       /\ \A i \in 1 .. Len(outputs) - 1 : outputs[i] = entry.outputs[i]
       /\ Last(outputs).address = Last(entry.outputs).address
       /\ Last(outputs).amount
            = Last(entry.outputs).amount - estimate_fee(entry.inputs, entry.outputs)

\* strip_value has ended on a builder with an input add_value added and
\* has made a change output.
C25_Witness ==
  /\ Completed("strip_value")
  /\ Len(inputs) >= 2
  /\ Len(outputs) = 2
  /\ Len(outputs) > Len(entry.outputs)

(***************************************************************************)
(* C26.  In every state of the builder the inputs hold no outpoint twice,  *)
(* every input is a key of the amount map and no input is in the remaining *)
(* pool; the pool only shrinks, and a stage that has ended took out of it  *)
(* exactly the outpoints it added to the inputs.                           *)
(***************************************************************************)
C26_InputsLeaveThePool ==
  /\ \A i, j \in 1 .. Len(inputs) : inputs[i] = inputs[j] => i = j
  /\ \A i \in 1 .. Len(inputs) : inputs[i] \in DOMAIN amounts /\ inputs[i] \notin utxos
  /\ utxos \subseteq entry.utxos
  /\ entry.utxos \subseteq DOMAIN amounts
  /\ result = "Running" =>
       entry.utxos \ utxos
         = {inputs[i] : i \in 1 .. Len(inputs)} \ {entry.inputs[i] : i \in 1 .. Len(entry.inputs)}

\* add_value has ended after it added two inputs to the outgoing one.
C26_Witness ==
  /\ Completed("add_value")
  /\ Len(inputs) = 3
  /\ Len(entry.inputs) = 1

\* The while loop of add_value is between two iterations.
InLoop == pc = "add_value_loop"

\* A step of the loop that leaves the run in the loop takes one outpoint
\* out of the pool and puts none back.
IterationShrinksPool ==
  (InLoop /\ InLoop') =>
    /\ utxos' \subseteq utxos
    /\ Cardinality(utxos') = Cardinality(utxos) - 1

(***************************************************************************)
(* C27.  Every run terminates: each iteration of the loop of add_value     *)
(* that does not end the run takes one outpoint out of the finite pool, so *)
(* the loop runs at most as many iterations as the pool has outpoints, and *)
(* the run ends in Ok, in an error or in a panic, also when a selected     *)
(* UTXO is worth nothing or is worth exactly the fee of its input.         *)
(***************************************************************************)
C27_RunTerminates ==
  /\ [][IterationShrinksPool]_vars
  /\ [](Len(inputs) - 1 + Cardinality(utxos) <= Cardinality(DOMAIN amounts) - 1)
  /\ <>(pc = "done")

\* A run has ended after the loop of add_value added two inputs, one of
\* them worth exactly the fee of its input.
C27_Witness ==
  /\ pc = "done"
  /\ Len(inputs) >= 3
  /\ \E i \in 2 .. Len(inputs) : amounts[inputs[i]] = fee(fee_rate, ADDITIONAL_INPUT_VBYTES)

====
